---------------------------- MODULE Spec2Model ----------------------------
(***************************************************************************)
(* Model of the SHL assessment recommender:                                *)
(*   - rule_type_classifier.py : rule_infer_type                           *)
(*   - clean_catalog.py        : _skill_patterns, extract_skills           *)
(*   - app.py                  : boost_by_text_match, safe_float,          *)
(*                               recommend                                 *)
(*   - build_index.py          : the three files written by the build,     *)
(*                               next to the startup load of app.py        *)
(* Texts are TLA+ strings handled character by character, so whole-word    *)
(* matching, substring containment, lower-casing, splitting and joining    *)
(* are computed as the Python code computes them.                          *)
(***************************************************************************)
EXTENDS Integers, Sequences, FiniteSets, TLC

VARIABLES
    text,        \* argument handed to extract_skills / rule_infer_type: <<>> is None, <<s>> a str
    skills,      \* <<>> before the call, <<r>> with r the str returned by extract_skills
    test_type,   \* <<>> before the call, <<r>> with r the label returned by rule_infer_type
    df,          \* app.py: the catalogue table read from data/metadata.csv, a list of rows
    embs_len,    \* app.py: len(embs), the number of rows of the embedding matrix
    nbrs_fit,    \* app.py: the number of rows the NearestNeighbors structure was fitted on
    pc,          \* "idle", or "done" once /recommend has produced its response
    request,     \* the JSON body of the request being answered
    neighbors,   \* what the collaborators gave: the (dist, idx) pairs of kneighbors, or a failure
    cands,       \* the list `out` as handed to boost_by_text_match
    ranked,      \* the list `out` after boost_by_text_match
    response,    \* the HTTP response of /recommend
    threads,     \* concurrent server: the local names of each /recommend call in progress
    heap,        \* concurrent server: the list objects the calls have created, by identity
    disk,        \* data/: what embeddings.npy, metadata.csv and nn_model.joblib hold
    build_pc,    \* build_index.py: the next statement of the build script
    load_pc,     \* app.py lines 27-29: the next statement of the startup load
    loaded       \* the build each of df, embs and nbrs was read from

tagVars == <<text, skills, test_type>>
recVars == <<df, embs_len, nbrs_fit, pc, request, neighbors, cands, ranked, response>>
conVars == <<threads, heap>>
buildVars == <<disk, build_pc, load_pc, loaded>>
vars == <<text, skills, test_type, df, embs_len, nbrs_fit, pc, request, neighbors, cands,
          ranked, response, threads, heap, disk, build_pc, load_pc, loaded>>

-----------------------------------------------------------------------------
(* Strings *)

CharAt(s, i) == SubSeq(s, i, i)

UPPER == "ABCDEFGHIJKLMNOPQRSTUVWXYZ"
LOWERCASE == "abcdefghijklmnopqrstuvwxyz"
DIGITS == "0123456789"

CharsOf(s) == {CharAt(s, i) : i \in 1..Len(s)}

UpperSet == CharsOf(UPPER)

LowerOf == [c \in UpperSet |-> CharAt(LOWERCASE, CHOOSE i \in 1..Len(UPPER) : CharAt(UPPER, i) = c)]

\* str.lower(), one character
LowerChar(c) == IF c \in UpperSet THEN LowerOf[c] ELSE c

RECURSIVE LowerEach(_)
LowerEach(s) == IF s = "" THEN "" ELSE LowerChar(Head(s)) \o LowerEach(Tail(s))

\* str.lower(): a str without upper-case letters is returned as it is
Lower(s) == IF \E i \in 1..Len(s) : CharAt(s, i) \in UpperSet THEN LowerEach(s) ELSE s

\* the characters the regex class \w matches (and \W does not)
WordChars == CharsOf(UPPER) \cup CharsOf(LOWERCASE) \cup CharsOf(DIGITS) \cup {"_"}

IsWordChar(c) == c \in WordChars

\* the characters str.isspace() accepts, as far as the inputs use them
SpaceChars == {" "}

\* str.strip()
RECURSIVE LStrip(_)
LStrip(s) == IF s # "" /\ Head(s) \in SpaceChars THEN LStrip(Tail(s)) ELSE s

RECURSIVE RStrip(_)
RStrip(s) ==
    IF s # "" /\ CharAt(s, Len(s)) \in SpaceChars THEN RStrip(SubSeq(s, 1, Len(s) - 1)) ELSE s

Strip(s) == RStrip(LStrip(s))

\* Python's `p in s` on two str
Contains(p, s) == \E i \in 1..(Len(s) - Len(p) + 1) : SubSeq(s, i, i + Len(p) - 1) = p

\* the regex assertion \b at the gap in front of character i of s (i in 1..Len(s)+1)
WordBoundary(s, i) ==
    LET before == i > 1 /\ IsWordChar(CharAt(s, i - 1))
        after == i <= Len(s) /\ IsWordChar(CharAt(s, i))
    IN  before # after

\* whether the literal p stands at character i of s, between two \b
MatchAt(p, s, i) ==
    /\ SubSeq(s, i, i + Len(p) - 1) = p
    /\ WordBoundary(s, i)
    /\ WordBoundary(s, i + Len(p))

\* the pattern compiled without its two \b: a plain substring search
PatSearch_substring(p, s) == Contains(Lower(p), Lower(s))

\* re.compile(r"\b" + re.escape(p) + r"\b", flags=re.I).search(s)
PatSearch(p, s) ==
    LET lp == Lower(p)
        ls == Lower(s)
    IN  \E i \in 1..(Len(ls) - Len(lp) + 1) : MatchAt(lp, ls, i)

\* sep.join(seq)
RECURSIVE Join(_, _)
Join(seq, sep) ==
    IF seq = <<>> THEN ""
    ELSE IF Len(seq) = 1 THEN seq[1]
    ELSE seq[1] \o sep \o Join(Tail(seq), sep)

\* s.split(sep) for a one-character sep ("" gives <<"">>, as in Python)
RECURSIVE SplitOn(_, _)
SplitOn(s, sep) ==
    IF ~Contains(sep, s) THEN <<s>>
    ELSE LET i == CHOOSE j \in 1..Len(s) : CharAt(s, j) = sep /\ \A k \in 1..(j - 1) : CharAt(s, k) # sep
         IN  <<SubSeq(s, 1, i - 1)>> \o SplitOn(SubSeq(s, i + 1, Len(s)), sep)

SeqRange(seq) == {seq[i] : i \in DOMAIN seq}

\* the function f as a table computed once, not once per application
Table(f) == f @@ <<>>

-----------------------------------------------------------------------------
(* rule_type_classifier.py *)

\* the dict TYPE_KEYWORDS, as its items in insertion order
TYPE_KEYWORDS == <<
    <<"A", <<"ability", "aptitude", "cognitive", "reasoning", "numerical", "verbal ability", "verbal", "logic", "logical">>>>,
    <<"B", <<"biodata", "situational judgement", "sjt", "scenario based", "what would you do">>>>,
    <<"C", <<"competency", "competencies", "competency framework", "ucf">>>>,
    <<"D", <<"360", "leadership development", "development report", "feedback report", "development center", "assessment center">>>>,
    <<"E", <<"assessment exercise", "exercise", "assessment exercises">>>>,
    <<"K", <<"skill", "skills", "technical", "coding", "programming", "knowledge", "sql", "java", "python", "it skills">>>>,
    <<"P", <<"personality", "motivational", "behaviour", "behavior", "leadership style", "opq", "mq", "team types", "interpersonal", "communication", "traits", "psychometric">>>>,
    <<"S", <<"simulation", "simulations", "call center simulation", "job simulation", "scenario simulation">>>>,
    <<"V", <<"video interview", "smart interview", "recorded interview", "video feedback">>>>
>>

\* Priority for breaking ties when multiple types score the same
PRIORITY == <<"K", "P", "A", "S", "V", "D", "C", "E", "B">>

TypeOf(item) == item[1]
KeywordsOf(item) == item[2]

\* the keys of TYPE_PATTERNS, in iteration order
TypeOrder == [i \in DOMAIN TYPE_KEYWORDS |-> TypeOf(TYPE_KEYWORDS[i])]

Types == SeqRange(TypeOrder)

\* TYPE_PATTERNS[t]: one whole-word, case-insensitive pattern per keyword of t
TYPE_PATTERNS(t) == KeywordsOf(TYPE_KEYWORDS[CHOOSE i \in DOMAIN TYPE_KEYWORDS : TypeOrder[i] = t])

\* text or ""
OrEmpty(arg) == IF arg = <<>> THEN "" ELSE arg[1]

\* the number of places where pattern p is found in lowered
FindAllCount(p, lowered) ==
    LET lp == Lower(p)
    IN  Cardinality({i \in 1..(Len(lowered) - Len(lp) + 1) : MatchAt(lp, lowered, i)})

RECURSIVE SumOver(_, _)
SumOver(f, S) ==
    IF S = {} THEN 0 ELSE LET x == CHOOSE y \in S : TRUE IN f[x] + SumOver(f, S \ {x})

\* scores that add one per occurrence of a keyword instead of one per keyword found
Scores_occurrences(lowered) ==
    Table([t \in Types |->
             SumOver([i \in DOMAIN TYPE_PATTERNS(t) |-> FindAllCount(TYPE_PATTERNS(t)[i], lowered)],
                     DOMAIN TYPE_PATTERNS(t))])

\* the dict scores after the two nested loops: +1 for every pattern of t that is found
Scores(lowered) ==
    Table([t \in Types |->
             Cardinality({i \in DOMAIN TYPE_PATTERNS(t) : PatSearch(TYPE_PATTERNS(t)[i], lowered)})])

MaxOf(S) == CHOOSE m \in S : \A x \in S : x <= m

\* a tie settled by the iteration order of the dict instead of PRIORITY
InferType_dictOrder(arg) ==
    LET lowered == Lower(OrEmpty(arg))
        scores == Scores(lowered)
        best_score == MaxOf({scores[t] : t \in Types})
        candidates == SelectSeq(TypeOrder, LAMBDA t : scores[t] = best_score)
    IN  IF best_score = 0 THEN [label |-> "K", via |-> "default", scores |-> scores]
        ELSE [label |-> candidates[1], via |-> "fallback", scores |-> scores]

\* rule_infer_type, with the return statement that produced the label:
\* "default" (line 60), "priority" (line 64) or "fallback" (line 65)
InferType(arg) ==
    LET lowered == Lower(OrEmpty(arg))
        scores == Scores(lowered)
        best_score == MaxOf({scores[t] : t \in Types})
        candidates == SelectSeq(TypeOrder, LAMBDA t : scores[t] = best_score)
        hits == {i \in DOMAIN PRIORITY : PRIORITY[i] \in SeqRange(candidates)}
    IN  IF best_score = 0 THEN [label |-> "K", via |-> "default", scores |-> scores]
        ELSE IF hits # {} THEN [label |-> PRIORITY[CHOOSE i \in hits : \A j \in hits : i <= j],
                                via |-> "priority", scores |-> scores]
        ELSE [label |-> candidates[1], via |-> "fallback", scores |-> scores]

\* text.lower() without the `or ""`: None has no lower()
rule_infer_type_noGuard(arg) == IF arg = <<>> THEN "AttributeError" ELSE InferType(arg).label

rule_infer_type(arg) == InferType(arg).label

-----------------------------------------------------------------------------
(* clean_catalog.py *)

\* Canonical skill names we want in output (normalized)
CANONICAL_SKILLS == <<
    "sql", "java", "javascript", "python", "react", "aws", "excel", "communication",
    "leadership", "teamwork", "sales", "verbal", "numerical", "logical", "management",
    "customer service", "cognitive", "data warehousing", "data entry", "hadoop", "spark",
    "tableau", "power bi", "nlp", "machine learning", "deep learning", "devops",
    "docker", "kubernetes", "microsoft office"
>>

\* the dict SYNONYMS (alternative spelling -> canonical skill), as its items in insertion order
SYNONYMS == <<
    <<"aws", "aws">>, <<"amazon", "aws">>, <<"amazon web services", "aws">>,
    <<"amazon-aws", "aws">>, <<"amazon aws", "aws">>, <<"cloud", "aws">>,
    <<"ms sql", "sql">>, <<"mssql", "sql">>, <<"mysql", "sql">>, <<"postgres", "sql">>,
    <<"postgresql", "sql">>, <<"java script", "javascript">>, <<"js", "javascript">>,
    <<"ms excel", "excel">>, <<"microsoft excel", "excel">>,
    <<"ms office", "microsoft office">>, <<"datawarehouse", "data warehousing">>,
    <<"data-warehousing", "data warehousing">>, <<"data warehouse", "data warehousing">>,
    <<"powerbi", "power bi">>, <<"natural language processing", "nlp">>,
    <<"nlp", "nlp">>, <<"deep-learning", "deep learning">>, <<"ml", "machine learning">>,
    <<"k8s", "kubernetes">>, <<"customer-service", "customer service">>,
    <<"customerservice", "customer service">>, <<"call centre", "customer service">>,
    <<"call center", "customer service">>
>>

MULTI_WORD_SKILLS == <<
    "data warehousing", "data entry", "machine learning", "deep learning",
    "customer service", "power bi", "natural language processing", "microsoft office"
>>

\* Python's stable sort, ascending, of a list of [key, item] records by key
RECURSIVE StableSort(_)
StableSort(seq) ==
    IF seq = <<>> THEN <<>>
    ELSE LET front == StableSort(SubSeq(seq, 1, Len(seq) - 1))
             x == seq[Len(seq)]
             n == Cardinality({i \in DOMAIN front : front[i].key <= x.key})
         IN  SubSeq(front, 1, n) \o <<x>> \o SubSeq(front, n + 1, Len(front))

\* the phrases left in list order, as if the sort were forgotten
SortedPhrases_unsorted == MULTI_WORD_SKILLS

\* sorted(MULTI_WORD_SKILLS, key=lambda x: -len(x))
SortedPhrases ==
    LET keyed == [i \in DOMAIN MULTI_WORD_SKILLS |->
                    [key |-> 0 - Len(MULTI_WORD_SKILLS[i]), item |-> MULTI_WORD_SKILLS[i]]]
        ordered == StableSort(keyed)
    IN  [i \in DOMAIN ordered |-> ordered[i].item]

\* a pattern entry (canonical, pat): pat is kept as the literal it was compiled from
Entry(canonical, literal) == [canonical |-> canonical, pat |-> literal]

\* lines 117-118: multi-word phrases, longest first
MultiWordEntries == [i \in DOMAIN SortedPhrases |-> Entry(Lower(SortedPhrases[i]), SortedPhrases[i])]

\* lines 121-122: synonyms, alt -> canon
SynonymEntries == [i \in DOMAIN SYNONYMS |-> Entry(Lower(SYNONYMS[i][2]), SYNONYMS[i][1])]

\* lines 125-129: canonical skills whose label no earlier entry already carries
SingleEntries ==
    LET existing == {e.canonical : e \in SeqRange(MultiWordEntries \o SynonymEntries)}
        kept == SelectSeq(CANONICAL_SKILLS, LAMBDA s : Lower(s) \notin existing)
    IN  [i \in DOMAIN kept |-> Entry(Lower(kept[i]), kept[i])]

\* the module-level list _skill_patterns
SkillPatterns == MultiWordEntries \o SynonymEntries \o SingleEntries

\* lines 147-152: deduplicate while preserving order of discovery
RECURSIVE Dedup(_)
Dedup(found) ==
    IF found = <<>> THEN <<>>
    ELSE LET front == Dedup(SubSeq(found, 1, Len(found) - 1))
             f == found[Len(found)]
         IN  IF f \in SeqRange(front) THEN front ELSE Append(front, f)

\* the list `result` of extract_skills for a str that is not empty
SkillsFound(s) ==
    LET t == Lower(s)
        hit == SelectSeq(SkillPatterns, LAMBDA e : PatSearch(e.pat, t))
    IN  Dedup([i \in DOMAIN hit |-> hit[i].canonical])

\* extract_skills(text)
extract_skills(arg) ==
    IF arg = <<>> \/ arg[1] = "" THEN "" ELSE Join(SkillsFound(arg[1]), ",")

-----------------------------------------------------------------------------
(* app.py *)

\* Scores and distances are fixed-point numbers in hundredths: 100 is 1.0, 25 is 0.25.
ONE == 100
BOOST == 25
DEFAULT_TOP_K == 10
MIN_NEIGHBORS == 10
SANITY_BOUND == 100000000

\* JSON and table values: a key that is absent, null / NaN, a str, an int
Absent == [t |-> "absent"]
Null == [t |-> "null"]
NaN == [t |-> "nan"]
Str(s) == [t |-> "str", v |-> s]
Num(n) == [t |-> "int", v |-> n]

\* the phrases of line 46
multi_phrases == <<"power bi", "data warehousing", "machine learning", "deep learning",
                   "amazon web services", "amazon aws">>

\* re.split(r'\W+', s): the pieces between the runs of non-word characters
RECURSIVE ReSplitNonWord(_)
ReSplitNonWord(s) ==
    IF \A k \in 1..Len(s) : IsWordChar(CharAt(s, k)) THEN <<s>>
    ELSE LET i == CHOOSE k \in 1..Len(s) :
                      /\ ~IsWordChar(CharAt(s, k))
                      /\ \A m \in 1..(k - 1) : IsWordChar(CharAt(s, m))
             after == {k \in (i + 1)..Len(s) : IsWordChar(CharAt(s, k))}
             j == IF after = {} THEN Len(s) + 1 ELSE CHOOSE k \in after : \A m \in after : k <= m
         IN  <<SubSeq(s, 1, i - 1)>> \o ReSplitNonWord(SubSeq(s, j, Len(s)))

\* the desired terms without lines 51-53: the tokens only
Desired_tokensOnly(query) ==
    SeqRange(SelectSeq(ReSplitNonWord(Lower(query)), LAMBDA t : Len(t) > 1))

\* lines 45-56: the desired terms of a query that is not empty
Desired(query) ==
    LET q == Lower(query)
        tokens == SelectSeq(ReSplitNonWord(q), LAMBDA t : Len(t) > 1)
    IN  {p \in SeqRange(multi_phrases) : Contains(p, q)} \cup SeqRange(tokens)

\* the boost added once for a candidate that matches, however many terms match
Boosted_flat(r, desired, boost) ==
    LET canon == Lower(r.canonical_text)
        matches == Cardinality({d \in desired : Contains(d, canon)})
    IN  [f \in DOMAIN r \cup {"_text_match_count"} |->
            IF f = "score" THEN r.score + (IF matches > 0 THEN boost ELSE 0)
            ELSE IF f = "_text_match_count" THEN matches
            ELSE r[f]]

\* lines 59-66: one candidate with its score raised and its match count recorded
Boosted(r, desired, boost) ==
    LET base == r.score
        canon == Lower(r.canonical_text)
        matches == Cardinality({d \in desired : Contains(d, canon)})
    IN  [f \in DOMAIN r \cup {"_text_match_count"} |->
            IF f = "score" THEN base + matches * boost
            ELSE IF f = "_text_match_count" THEN matches
            ELSE r[f]]

\* the sort without reverse=True: smallest score first
SortByScoreDesc_ascending(results) ==
    LET keyed == [i \in DOMAIN results |-> [key |-> results[i].score, item |-> results[i]]]
        ordered == StableSort(keyed)
    IN  [i \in DOMAIN ordered |-> ordered[i].item]

\* results.sort(key=lambda x: x["score"], reverse=True): stable, largest score first
SortByScoreDesc(results) ==
    LET keyed == [i \in DOMAIN results |-> [key |-> 0 - results[i].score, item |-> results[i]]]
        ordered == StableSort(keyed)
    IN  [i \in DOMAIN ordered |-> ordered[i].item]

\* boost_by_text_match(results, query, boost): the list `results` as the call leaves it
\* (the list is changed in place and returned)
boost_by_text_match(results, query, boost) ==
    IF query = "" THEN results
    ELSE LET desired == Desired(query)
         IN  SortByScoreDesc([i \in DOMAIN results |-> Boosted(results[i], desired, boost)])

\* safe_float(x, default): every number of the model is finite
safe_float(x, default) == IF x \in Int THEN x ELSE default

Abs(x) == IF x < 0 THEN 0 - x ELSE x
Min(a, b) == IF a <= b THEN a ELSE b
Max(a, b) == IF a >= b THEN a ELSE b

DigitValue(c) == (CHOOSE i \in 1..Len(DIGITS) : CharAt(DIGITS, i) = c) - 1

RECURSIVE DigitsValue(_)
DigitsValue(s) ==
    IF s = "" THEN 0
    ELSE DigitsValue(SubSeq(s, 1, Len(s) - 1)) * Len(DIGITS) + DigitValue(CharAt(s, Len(s)))

\* int(s) for a str: <<n>>, or <<>> when int() raises ValueError
IntOfStr(s) ==
    LET body == Strip(s)
        signed == body # "" /\ Head(body) \in {"-", "+"}
        digits == IF signed THEN Tail(body) ELSE body
    IN  IF digits = "" \/ \E i \in 1..Len(digits) : CharAt(digits, i) \notin CharsOf(DIGITS)
        THEN <<>>
        ELSE <<IF signed /\ Head(body) = "-" THEN 0 - DigitsValue(digits) ELSE DigitsValue(digits)>>

\* str(x) of a table cell: an empty cell is read back as NaN
CellStr(cell) == IF cell.t = "nan" THEN "nan" ELSE cell.v

\* the response of the except branch, lines 157-160: {"error": str(e)}, 500
Failed(exc) ==
    [neighbors |-> <<>>, cands |-> <<>>, ranked |-> <<>>,
     response |-> [status |-> 500, error |-> exc]]

\* the distance kept as the score, without `1.0 - dist`
Candidates_distanceAsScore(pairs, table) ==
    LET inRange == SelectSeq(pairs, LAMBDA pr : ~(pr.idx < 0 \/ pr.idx >= Len(table)))
    IN  [i \in DOMAIN inRange |->
            [assessment_id |-> table[inRange[i].idx + 1].assessment_id,
             canonical_text |-> CellStr(table[inRange[i].idx + 1].canonical_text),
             score |-> inRange[i].dist]]

\* the test of line 113 without `idx < 0`
InRange_negativeKept(idx, rows) == ~(idx >= rows)

\* line 113: the pair is used unless idx < 0 or idx >= len(df)
InRange(idx, rows) == ~(idx < 0 \/ idx >= rows)

\* line 115, df.iloc[int(idx)]: a negative position counts from the end of the table
Iloc(table, idx) == IF idx < 0 THEN table[Len(table) + idx + 1] ELSE table[idx + 1]

\* lines 111-137: the candidates built from the (dist, idx) pairs
Candidates(pairs, table) ==
    LET inRange == SelectSeq(pairs, LAMBDA pr : InRange(pr.idx, Len(table)))
    IN  [i \in DOMAIN inRange |->
            LET row == Iloc(table, inRange[i].idx)
                score == safe_float(ONE - inRange[i].dist, 0)
            IN  [assessment_id |-> row.assessment_id,
                 canonical_text |-> CellStr(row.canonical_text),
                 score |-> IF Abs(score) > SANITY_BOUND THEN 0 ELSE score]]

\* lines 143-153: the records sent back
Final(out, k) ==
    LET head == SubSeq(out, 1, Min(k, Len(out)))
    IN  [i \in DOMAIN head |-> [assessment_id |-> head[i].assessment_id, score |-> head[i].score]]

\* nbrs.kneighbors(qv, n_neighbors=n): n pairs by ascending distance, gap apart, the rows
\* taken in ascending or in descending index order; a padded search has no row for its
\* last place and reports -1 there
KNeighbors(n, fitted, gap, descending, padded) ==
    [i \in 1..n |->
        [dist |-> (i - 1) * gap,
         idx |-> IF padded /\ i = n THEN 0 - 1 ELSE IF descending THEN fitted - i ELSE i - 1]]

\* line 101 with `k < 0` for `k <= 0`
EffectiveK_zeroKept(k) == IF k < 0 THEN DEFAULT_TOP_K ELSE k

\* line 101: if k <= 0: k = 10
EffectiveK(k) == IF k <= 0 THEN DEFAULT_TOP_K ELSE k

\* the count asked of the search as retrieve_test.py line 18 does: no floor of 10
NNeighbors_noFloor(k, n_embs) == Min(k, n_embs)

\* line 108: n_neighbors = min(max(k, 10), len(embs))
NNeighbors(k, n_embs) == Min(Max(k, MIN_NEIGHBORS), n_embs)

\* recommend(): data is the JSON body, env what the collaborators do for this request
recommend(data, env, table, n_embs, n_fitted) ==
    IF data = Null THEN Failed("AttributeError")
    ELSE
    LET got == data.query
        q == Strip(IF got.t = "str" THEN got.v ELSE "")
        raw == IF data.top_k.t = "absent" THEN Num(DEFAULT_TOP_K) ELSE data.top_k
        parsed == IF raw.t = "int" THEN <<raw.v>> ELSE IF raw.t = "str" THEN IntOfStr(raw.v) ELSE <<>>
    IN  IF raw.t = "null" THEN Failed("TypeError")
        ELSE IF parsed = <<>> THEN Failed("ValueError")
        ELSE
        LET k == EffectiveK(parsed[1])
            n_neighbors == NNeighbors(k, n_embs)
        IN  IF ~env.encode_ok THEN Failed("EncodeError")
            ELSE IF ~env.search_ok \/ n_neighbors <= 0 \/ n_neighbors > n_fitted
            THEN Failed("SearchError")
            ELSE
            LET pairs == KNeighbors(n_neighbors, n_fitted, env.gap, env.descending, env.padded)
                out == Candidates(pairs, table)
                after == boost_by_text_match(out, q, BOOST)
            IN  [neighbors |-> pairs, cands |-> out, ranked |-> after,
                 response |-> [status |-> 200, query |-> q, recommendations |-> Final(after, k)]]

-----------------------------------------------------------------------------
(* Inputs of the tagging operations *)

MaxSkillWords == 2
MaxTypeWords == 3

\* pieces of catalogue text that exercise the skill patterns
SkillWords == {"", "natural language processing", "data", "warehousing", "ms", "sql",
               "Power BI", "amazon", "aws", "java", "script", "javascript"}
SkillSeps == {" ", "-"}

\* pieces of catalogue text that exercise the type keywords
TypeWords == {"", "verbal ability", "sjt", "situational judgement", "skills", "Python",
              "opq", "competency framework", "plain"}
TypeSeps == {" "}

\* every text of at most n words of W joined by separators of S
RECURSIVE TextsOf(_, _, _)
TextsOf(W, S, n) ==
    IF n = 0 THEN {""}
    ELSE IF n = 1 THEN W
    ELSE LET shorter == TextsOf(W, S, n - 1)
         IN  shorter \cup {t \o sep \o w : t \in shorter, sep \in S, w \in W}

SkillTexts == TextsOf(SkillWords, SkillSeps, MaxSkillWords)
TypeTexts == TextsOf(TypeWords, TypeSeps, MaxTypeWords)

\* None, or a str
TagInputs == {<<>>} \cup {<<s>> : s \in SkillTexts \cup TypeTexts}

-----------------------------------------------------------------------------
(* The tagging API at catalogue build time *)

\* no request is handled by a thread of its own
NoThreads ==
    /\ threads = <<>>
    /\ heap = <<>>

\* no index build and no startup load is in progress
NoRebuild ==
    /\ disk = <<>>
    /\ build_pc = "off"
    /\ load_pc = "off"
    /\ loaded = <<>>

\* no catalogue is being served while the catalogue is being built
NotServing ==
    /\ df = <<>>
    /\ embs_len = 0
    /\ nbrs_fit = 0
    /\ pc = "off"
    /\ request = <<>>
    /\ neighbors = <<>>
    /\ cands = <<>>
    /\ ranked = <<>>
    /\ response = <<>>

InitTagging ==
    /\ text \in TagInputs
    /\ skills = <<>>
    /\ test_type = <<>>
    /\ NotServing
    /\ NoThreads
    /\ NoRebuild

\* test_type = rule_infer_type(text): the classification of a row comes first
CallRuleInferType ==
    /\ test_type = <<>>
    /\ test_type' = <<rule_infer_type(text)>>
    /\ UNCHANGED <<text, skills>>
    /\ UNCHANGED recVars
    /\ UNCHANGED <<conVars, buildVars>>

\* skills = extract_skills(text): then the row is tagged
CallExtractSkills ==
    /\ test_type # <<>>
    /\ skills = <<>>
    /\ skills' = <<extract_skills(text)>>
    /\ UNCHANGED <<text, test_type>>
    /\ UNCHANGED recVars
    /\ UNCHANGED <<conVars, buildVars>>

NextTagging == CallRuleInferType \/ CallExtractSkills

SpecTagging == InitTagging /\ [][NextTagging]_vars

-----------------------------------------------------------------------------
(* Inputs of /recommend *)

SmallRows == 3
LargeRows == 10
MaxDrift == 1

CatalogSizes == {SmallRows, LargeRows}

\* clean_catalog.py line 188: f"A{i+1:04d}", for the row at 1-based position n
AssessmentId(n) ==
    LET digits == ToString(n)
        zeros == "0000"
    IN  "A" \o SubSeq(zeros, 1, Len(zeros) - Len(digits)) \o digits

\* canonical texts of rows no query of the model is about; the last is an empty cell
FillerTexts == <<Str("numerical reasoning test"), Str("javascript coding"), NaN>>

\* canonical texts the queries are about
SpecialTexts == {Str("python and sql skills"), Str("power bi reports")}

\* a catalogue of n rows with the special text at row p
CatalogWith(n, p, special) ==
    [i \in 1..n |->
        [assessment_id |-> AssessmentId(i),
         canonical_text |-> IF i = p THEN special ELSE FillerTexts[(i % Len(FillerTexts)) + 1]]]

Catalogs ==
    UNION {{CatalogWith(n, p, special) : p \in 1..n, special \in SpecialTexts} : n \in CatalogSizes}

Queries == {Absent, Str(""), Str("  "), Str("python sql"), Str(" Python SQL"), Str("power bi"),
            Str("a b"), Str("java")}

TopKs == {Absent, Num(0 - 2), Num(0), Num(3), Num(LargeRows + 2), Str("2"), Str("abc")}

\* the JSON bodies: null (no body), or an object
Bodies == {Null} \cup {[query |-> q, top_k |-> k] : q \in Queries, k \in TopKs}

Gaps == {0, 5, 15}

\* what the embedding call and the vector search do for one request
Environments ==
    {[encode_ok |-> TRUE, search_ok |-> TRUE, gap |-> g, descending |-> d, padded |-> FALSE] :
        g \in Gaps, d \in BOOLEAN}
    \cup {[encode_ok |-> FALSE, search_ok |-> TRUE, gap |-> 0, descending |-> FALSE, padded |-> FALSE],
          [encode_ok |-> TRUE, search_ok |-> FALSE, gap |-> 0, descending |-> FALSE, padded |-> FALSE],
          [encode_ok |-> TRUE, search_ok |-> TRUE, gap |-> 5, descending |-> FALSE, padded |-> TRUE],
          [encode_ok |-> TRUE, search_ok |-> TRUE, gap |-> 5, descending |-> TRUE, padded |-> TRUE]}

-----------------------------------------------------------------------------
(* The server *)

\* no row is being tagged while the catalogue is served
NotTagging ==
    /\ text = <<>>
    /\ skills = <<>>
    /\ test_type = <<>>

NoRequest ==
    /\ request = <<>>
    /\ neighbors = <<>>
    /\ cands = <<>>
    /\ ranked = <<>>
    /\ response = <<>>

\* lines 21-35: the table, the matrix and the search structure are loaded
InitRecommend ==
    /\ df \in Catalogs
    /\ \E drift \in 0..MaxDrift :
           /\ embs_len = Len(df) + drift
           /\ nbrs_fit = Len(df) + drift
    /\ pc = "idle"
    /\ NoRequest
    /\ NotTagging
    /\ NoThreads
    /\ NoRebuild

\* POST /recommend, from the request to the response
Recommend ==
    /\ pc = "idle"
    /\ \E data \in Bodies, env \in Environments :
           LET r == recommend(data, env, df, embs_len, nbrs_fit)
           IN  /\ request' = <<data, env>>
               /\ neighbors' = r.neighbors
               /\ cands' = r.cands
               /\ ranked' = r.ranked
               /\ response' = r.response
    /\ pc' = "done"
    /\ UNCHANGED <<df, embs_len, nbrs_fit>>
    /\ UNCHANGED tagVars
    /\ UNCHANGED <<conVars, buildVars>>

\* the response is sent; the server waits for the next request
AwaitRequest ==
    /\ pc = "done"
    /\ pc' = "idle"
    /\ request' = <<>>
    /\ neighbors' = <<>>
    /\ cands' = <<>>
    /\ ranked' = <<>>
    /\ response' = <<>>
    /\ UNCHANGED <<df, embs_len, nbrs_fit>>
    /\ UNCHANGED tagVars
    /\ UNCHANGED <<conVars, buildVars>>

NextRecommend == Recommend \/ AwaitRequest

SpecRecommend == InitRecommend /\ [][NextRecommend]_vars

-----------------------------------------------------------------------------
(* The server with several requests in progress at once *)

NumThreads == 2

Threads == 1..NumThreads

\* the catalogues, bodies and collaborator behaviours of the concurrent requests
ThreadCatalogs == {CatalogWith(SmallRows, 1, special) : special \in SpecialTexts}

ThreadBodies ==
    {Null,
     [query |-> Absent, top_k |-> Absent],
     [query |-> Str("python sql"), top_k |-> Num(SmallRows - 1)],
     [query |-> Str("power bi"), top_k |-> Str("abc")]}

ThreadEnvironments ==
    {[encode_ok |-> TRUE, search_ok |-> TRUE, gap |-> 5, descending |-> TRUE, padded |-> FALSE],
     [encode_ok |-> FALSE, search_ok |-> TRUE, gap |-> 0, descending |-> FALSE, padded |-> FALSE]}

\* the local names of a call of recommend() that has not started
NoCall ==
    [pc |-> "idle", data |-> <<>>, env |-> <<>>, q |-> "", k |-> 0, pairs |-> <<>>,
     response |-> <<>>]

\* the list a module-level `out` would name: one list for every call
OutList_moduleLevel(t) == 1

\* line 111, out = []: the list that the local name `out` of call t is bound to
OutList(t) == t

\* no statement of recommend() assigns df, embs or nbrs
GlobalsKept ==
    /\ UNCHANGED <<df, embs_len, nbrs_fit, pc, request, neighbors, cands, ranked, response>>
    /\ UNCHANGED tagVars
    /\ UNCHANGED buildVars

\* the except branch taken by call t
Raise(t, exc) == threads' = [threads EXCEPT ![t].pc = "done", ![t].response = Failed(exc).response]

InitThreads ==
    /\ df \in ThreadCatalogs
    /\ \E drift \in 0..MaxDrift :
           /\ embs_len = Len(df) + drift
           /\ nbrs_fit = Len(df) + drift
    /\ threads = [t \in Threads |-> NoCall]
    /\ heap = [o \in Threads |-> <<>>]
    /\ pc = "threads"
    /\ NoRequest
    /\ NotTagging
    /\ NoRebuild

\* a request arrives and is given to a thread
Receive(t) ==
    /\ threads[t].pc = "idle"
    /\ \E data \in ThreadBodies, env \in ThreadEnvironments :
           threads' = [threads EXCEPT ![t].pc = "parse", ![t].data = data, ![t].env = env]
    /\ UNCHANGED heap
    /\ GlobalsKept

\* lines 98-101: data, q and k
Parse(t) ==
    /\ threads[t].pc = "parse"
    /\ LET data == threads[t].data
       IN  IF data = Null THEN Raise(t, "AttributeError")
           ELSE LET got == data.query
                    raw == IF data.top_k.t = "absent" THEN Num(DEFAULT_TOP_K) ELSE data.top_k
                    parsed == IF raw.t = "int" THEN <<raw.v>>
                              ELSE IF raw.t = "str" THEN IntOfStr(raw.v) ELSE <<>>
                IN  IF raw.t = "null" THEN Raise(t, "TypeError")
                    ELSE IF parsed = <<>> THEN Raise(t, "ValueError")
                    ELSE threads' = [threads EXCEPT
                             ![t].pc = "encode",
                             ![t].q = Strip(IF got.t = "str" THEN got.v ELSE ""),
                             ![t].k = EffectiveK(parsed[1])]
    /\ UNCHANGED heap
    /\ GlobalsKept

\* line 105: qv = model.encode([q], ...)
Encode(t) ==
    /\ threads[t].pc = "encode"
    /\ IF ~threads[t].env.encode_ok THEN Raise(t, "EncodeError")
       ELSE threads' = [threads EXCEPT ![t].pc = "search"]
    /\ UNCHANGED heap
    /\ GlobalsKept

\* lines 108-109: n_neighbors from len(embs), then nbrs.kneighbors
Search(t) ==
    /\ threads[t].pc = "search"
    /\ LET n_neighbors == NNeighbors(threads[t].k, embs_len)
           env == threads[t].env
       IN  IF ~env.search_ok \/ n_neighbors <= 0 \/ n_neighbors > nbrs_fit
           THEN Raise(t, "SearchError")
           ELSE threads' = [threads EXCEPT
                    ![t].pc = "newlist",
                    ![t].pairs = KNeighbors(n_neighbors, nbrs_fit, env.gap, env.descending,
                                          env.padded)]
    /\ UNCHANGED heap
    /\ GlobalsKept

\* line 111: out = []
NewList(t) ==
    /\ threads[t].pc = "newlist"
    /\ heap' = [heap EXCEPT ![OutList(t)] = <<>>]
    /\ threads' = [threads EXCEPT ![t].pc = "append"]
    /\ GlobalsKept

\* lines 112-137: the loop that reads df and appends to out
AppendCandidates(t) ==
    /\ threads[t].pc = "append"
    /\ heap' = [heap EXCEPT ![OutList(t)] = @ \o Candidates(threads[t].pairs, df)]
    /\ threads' = [threads EXCEPT ![t].pc = "boost"]
    /\ GlobalsKept

\* line 140: out = boost_by_text_match(out, q, boost=0.25), the list changed in place
Boost(t) ==
    /\ threads[t].pc = "boost"
    /\ heap' = [heap EXCEPT ![OutList(t)] = boost_by_text_match(@, threads[t].q, BOOST)]
    /\ threads' = [threads EXCEPT ![t].pc = "respond"]
    /\ GlobalsKept

\* lines 143-155: final and the response
Respond(t) ==
    /\ threads[t].pc = "respond"
    /\ threads' = [threads EXCEPT
           ![t].pc = "done",
           ![t].response = [status |-> 200, query |-> threads[t].q,
                            recommendations |-> Final(heap[OutList(t)], threads[t].k)]]
    /\ UNCHANGED heap
    /\ GlobalsKept

\* one statement of one call
NextThreads ==
    \E t \in Threads :
        \/ Receive(t)
        \/ Parse(t)
        \/ Encode(t)
        \/ Search(t)
        \/ NewList(t)
        \/ AppendCandidates(t)
        \/ Boost(t)
        \/ Respond(t)

SpecThreads == InitThreads /\ [][NextThreads]_vars

-----------------------------------------------------------------------------
(* The index build (build_index.py) running while a server starts and serves *)

\* build_index.py line 16: data/catalog_clean.csv as the earlier build read it ("old") and
\* as the running build reads it ("new", one item more, in front of the item of "old")
CleanCatalog(build) ==
    IF build = "old" THEN CatalogWith(SmallRows, 1, Str("python and sql skills"))
    ELSE CatalogWith(SmallRows + 1, 2, Str("python and sql skills"))

\* lines 23-26: the matrix written by np.save, one row per catalogue row
EmbeddingsOf(build) == [build |-> build, rows |-> Len(CleanCatalog(build))]

\* line 27: the table written by df.to_csv
MetadataOf(build) == [build |-> build, table |-> CleanCatalog(build)]

\* lines 30-32: the structure fitted on the matrix and written by joblib.dump
NNModelOf(build) == [build |-> build, fitted |-> Len(CleanCatalog(build))]

\* data/ holds the three files of the earlier build; the script and the server start
InitRebuild ==
    /\ disk = [emb |-> EmbeddingsOf("old"), meta |-> MetadataOf("old"), nn |-> NNModelOf("old")]
    /\ build_pc = "save_embeddings"
    /\ load_pc = "read_metadata"
    /\ loaded = [meta |-> "none", emb |-> "none", nn |-> "none"]
    /\ df = <<>>
    /\ embs_len = 0
    /\ nbrs_fit = 0
    /\ pc = "off"
    /\ NoRequest
    /\ NotTagging
    /\ NoThreads

\* build_index.py line 26: np.save(EMB, embs)
SaveEmbeddings ==
    /\ build_pc = "save_embeddings"
    /\ disk' = [disk EXCEPT !.emb = EmbeddingsOf("new")]
    /\ build_pc' = "save_metadata"
    /\ UNCHANGED <<load_pc, loaded>>
    /\ UNCHANGED recVars
    /\ UNCHANGED <<tagVars, conVars>>

\* build_index.py line 27: df.to_csv(META, index=False)
SaveMetadata ==
    /\ build_pc = "save_metadata"
    /\ disk' = [disk EXCEPT !.meta = MetadataOf("new")]
    /\ build_pc' = "dump_nn"
    /\ UNCHANGED <<load_pc, loaded>>
    /\ UNCHANGED recVars
    /\ UNCHANGED <<tagVars, conVars>>

\* build_index.py lines 30-32: the structure is fitted and written
DumpNN ==
    /\ build_pc = "dump_nn"
    /\ disk' = [disk EXCEPT !.nn = NNModelOf("new")]
    /\ build_pc' = "done"
    /\ UNCHANGED <<load_pc, loaded>>
    /\ UNCHANGED recVars
    /\ UNCHANGED <<tagVars, conVars>>

\* app.py line 27: df = pd.read_csv(META)
ReadMetadata ==
    /\ load_pc = "read_metadata"
    /\ df' = disk.meta.table
    /\ loaded' = [loaded EXCEPT !.meta = disk.meta.build]
    /\ load_pc' = "load_embeddings"
    /\ UNCHANGED <<disk, build_pc>>
    /\ UNCHANGED <<embs_len, nbrs_fit, pc, request, neighbors, cands, ranked, response>>
    /\ UNCHANGED <<tagVars, conVars>>

\* app.py line 28: embs = np.load(EMB)
LoadEmbeddings ==
    /\ load_pc = "load_embeddings"
    /\ embs_len' = disk.emb.rows
    /\ loaded' = [loaded EXCEPT !.emb = disk.emb.build]
    /\ load_pc' = "load_nn"
    /\ UNCHANGED <<disk, build_pc>>
    /\ UNCHANGED <<df, nbrs_fit, pc, request, neighbors, cands, ranked, response>>
    /\ UNCHANGED <<tagVars, conVars>>

\* app.py lines 29-31: nbrs = joblib.load(NN); the server is ready for requests
LoadNN ==
    /\ load_pc = "load_nn"
    /\ nbrs_fit' = disk.nn.fitted
    /\ loaded' = [loaded EXCEPT !.nn = disk.nn.build]
    /\ load_pc' = "loaded"
    /\ pc' = "idle"
    /\ UNCHANGED <<disk, build_pc>>
    /\ UNCHANGED <<df, embs_len, request, neighbors, cands, ranked, response>>
    /\ UNCHANGED <<tagVars, conVars>>

\* a statement of the build script, a statement of the startup load, or a request
NextRebuild ==
    \/ SaveEmbeddings
    \/ SaveMetadata
    \/ DumpNN
    \/ ReadMetadata
    \/ LoadEmbeddings
    \/ LoadNN
    \/ Recommend
    \/ AwaitRequest

SpecRebuild == InitRebuild /\ [][NextRebuild]_vars

-----------------------------------------------------------------------------
(* What the claims about the tagging operations speak of *)

\* the labels of a comma-joined result
Labels(joined) == IF joined = "" THEN <<>> ELSE SplitOn(joined, ",")

\* the str the operation works on: None counts as ""
TextOf(arg) == IF arg = <<>> THEN "" ELSE arg[1]

\* p stands at character i of t as whole words: no word character touches it on either side
WholeWordAt(p, t, i) ==
    /\ i >= 1
    /\ i + Len(p) - 1 <= Len(t)
    /\ SubSeq(t, i, i + Len(p) - 1) = p
    /\ (i = 1 \/ ~IsWordChar(CharAt(t, i - 1)))
    /\ (i + Len(p) - 1 = Len(t) \/ ~IsWordChar(CharAt(t, i + Len(p))))

Occurrences(p, t) == {i \in 1..Len(t) : WholeWordAt(p, t, i)}

\* p occurs in the lower-cased text lt as whole words
WholeWordIn(p, lt) == \E i \in 1..(Len(lt) - Len(p) + 1) : WholeWordAt(p, lt, i)

\* The registry as section 4.1 describes it, without building the list: each pattern with
\* its label and its place <<group, -length, position>>; the groups are 0 for the multi-word
\* phrases, 1 for the synonyms, 2 for the remaining canonical labels.
DescribedPhrases ==
    {[canonical |-> MULTI_WORD_SKILLS[i], pat |-> MULTI_WORD_SKILLS[i],
      place |-> <<0, 0 - Len(MULTI_WORD_SKILLS[i]), i>>] : i \in DOMAIN MULTI_WORD_SKILLS}

DescribedSynonyms ==
    {[canonical |-> SYNONYMS[i][2], pat |-> SYNONYMS[i][1], place |-> <<1, 0, i>>] :
        i \in DOMAIN SYNONYMS}

DescribedSingles ==
    {[canonical |-> CANONICAL_SKILLS[i], pat |-> CANONICAL_SKILLS[i], place |-> <<2, 0, i>>] :
        i \in {j \in DOMAIN CANONICAL_SKILLS :
                 \A d \in DescribedPhrases \cup DescribedSynonyms : d.canonical # CANONICAL_SKILLS[j]}}

Described == DescribedPhrases \cup DescribedSynonyms \cup DescribedSingles

\* place a comes strictly before place b
Before(a, b) ==
    \/ a[1] < b[1]
    \/ a[1] = b[1] /\ a[2] < b[2]
    \/ a[1] = b[1] /\ a[2] = b[2] /\ a[3] < b[3]

\* the described patterns that whole-word-match the lower-cased text lt
Matching(lt) == {d \in Described : WholeWordIn(d.pat, lt)}

\* among the matching patterns M, those of label l
Triggers(l, M) == {d \in M : d.canonical = l}

\* the place of the first pattern of l among the matching patterns M
FirstPlace(l, M) ==
    LET T == Triggers(l, M)
    IN  (CHOOSE d \in T : \A e \in T : e = d \/ Before(d.place, e.place)).place

-----------------------------------------------------------------------------
(* C1 *)

CanonicalSet == SeqRange(CANONICAL_SKILLS)

\* C1: every label in the output of extract_skills is a member of CANONICAL_SKILLS.
C1_LabelsAreCanonical ==
    skills # <<>> => \A l \in SeqRange(Labels(skills[1])) : l \in CanonicalSet

-----------------------------------------------------------------------------
(* C2 *)

-----------------------------------------------------------------------------
(* C3 *)

\* the words a phrase is made of
ComponentWords(P) == SplitOn(P, " ")

\* every whole-word occurrence of a component word of P in t lies inside an occurrence of P
NoComponentElsewhere(P, t) ==
    LET words == ComponentWords(P)
    IN  \A k \in DOMAIN words :
            Cardinality(Occurrences(words[k], t)) =
                Cardinality(Occurrences(P, t)) * Cardinality({m \in DOMAIN words : words[m] = words[k]})

\* the label the registry gives phrase P, and the label SYNONYMS maps P to, if any
PhraseLabels(P) == {Lower(P)} \cup {SYNONYMS[i][2] : i \in {j \in DOMAIN SYNONYMS : SYNONYMS[j][1] = P}}

\* the multi-word phrases that stand in t as whole words with no component word elsewhere
PhrasesAlone(t) ==
    {P \in SeqRange(MULTI_WORD_SKILLS) : Occurrences(P, t) # {} /\ NoComponentElsewhere(P, t)}

\* C3: when the text holds a multi-word phrase as whole words and none of its component
\* words elsewhere, the output includes the phrase's label, and every label of the output
\* has a pattern of its own that whole-word-matches the text.
C3_PhraseFoundNoSpuriousLabel ==
    skills # <<>> =>
        LET out == SeqRange(Labels(skills[1]))
            t == Lower(TextOf(text))
        IN  \A P \in PhrasesAlone(t) :
                /\ PhraseLabels(P) \subseteq out
                /\ \A l \in out : Triggers(l, Matching(t)) # {}

C3_Witness ==
    /\ text = <<"data warehousing">>
    /\ PhrasesAlone(Lower(TextOf(text))) = {"data warehousing"}
    /\ skills = <<"data warehousing">>

-----------------------------------------------------------------------------
(* C4 *)

AllKeywords == UNION {SeqRange(KeywordsOf(TYPE_KEYWORDS[i])) : i \in DOMAIN TYPE_KEYWORDS}

NoKeywordIn(t) == LET lt == Lower(t) IN \A kw \in AllKeywords : ~WholeWordIn(kw, lt)

\* C4: rule_infer_type returns "K" for None, for "" and for every text no keyword
\* matches; extract_skills returns "" for an empty or all-whitespace text; both calls
\* return a value for such an input.
C4_EmptyInputsGiveDefaults ==
    /\ (test_type # <<>> /\ NoKeywordIn(TextOf(text))) => test_type = <<"K">>
    /\ (skills # <<>> /\ Strip(TextOf(text)) = "") => skills = <<"">>

\* an all-whitespace text, classified and tagged
C4_Witness ==
    /\ text = <<" ">>
    /\ test_type = <<"K">>
    /\ skills = <<"">>

-----------------------------------------------------------------------------
(* C5 *)

\* for each category, the number of its distinct keywords that occur in t as whole words
KeywordCounts(t) ==
    LET lt == Lower(t)
    IN  Table([c \in Types |->
                 Cardinality({kw \in SeqRange(TYPE_PATTERNS(c)) : WholeWordIn(kw, lt)})])

\* C5: a category whose count of distinct matching keywords is strictly greater than
\* every other category's is the one returned, wherever it stands in PRIORITY; a keyword
\* counts once however often it occurs.
C5_StrictMaximumWins ==
    test_type # <<>> =>
        LET count == KeywordCounts(TextOf(text))
        IN  \A a \in Types : (\A b \in Types \ {a} : count[a] > count[b]) => test_type = <<a>>

\* A has three matching keywords ("verbal ability", "verbal", "ability"), B one ("sjt")
C5_Witness ==
    /\ text = <<"verbal ability sjt">>
    /\ KeywordCounts(TextOf(text))["A"] = Cardinality({"verbal ability", "verbal", "ability"})
    /\ KeywordCounts(TextOf(text))["B"] = 1
    /\ test_type = <<"A">>

-----------------------------------------------------------------------------
(* C6 *)

PriorityRank(c) == CHOOSE i \in DOMAIN PRIORITY : PRIORITY[i] = c

\* the categories that share the maximum of the counts
Tied(count) == {a \in Types : \A b \in Types : count[a] >= count[b]}

\* C6: the label is always one of the categories; when the maximum count is not zero the
\* label is the tied category that stands earliest in PRIORITY; PRIORITY lists every
\* category, and the return by iteration order is never the one taken.
C6_TieGoesToPriority ==
    /\ SeqRange(PRIORITY) = Types
    /\ test_type # <<>> =>
        LET count == KeywordCounts(TextOf(text))
            tied == Tied(count)
            label == test_type[1]
        IN  /\ label \in Types
            /\ InferType(text).via # "fallback"
            /\ (\E a \in Types : count[a] > 0) =>
                   /\ label \in tied
                   /\ \A a \in tied : PriorityRank(label) <= PriorityRank(a)

\* B and P tie at one keyword each; P stands before B in PRIORITY, B before P in the dict
C6_Witness ==
    /\ text = <<"sjt opq">>
    /\ Tied(KeywordCounts(TextOf(text))) = {"B", "P"}
    /\ test_type = <<"P">>

-----------------------------------------------------------------------------
(* What the claims about /recommend speak of *)

\* /recommend has answered with the recommendations
Answered == pc = "done" /\ response.status = 200

\* the request is an object whose top_k is missing or an integer, and both collaborators work
WellFormed ==
    /\ pc = "done"
    /\ request[1] # Null
    /\ request[1].top_k.t \in {"absent", "int"}
    /\ request[2].encode_ok
    /\ request[2].search_ok

\* the position of the record of assessment id in a list of records
PosOf(id, list) == CHOOSE i \in DOMAIN list : list[i].assessment_id = id

\* the candidates whose canonical text holds at least one of the terms as a substring
MatchedBy(terms, list) ==
    {i \in DOMAIN list : \E d \in terms : Contains(d, Lower(list[i].canonical_text))}

-----------------------------------------------------------------------------
(* C7 *)

\* C7: when the query has a desired term and the desired terms occur in the canonical
\* text of exactly one candidate, that candidate's score after boost_by_text_match is
\* strictly greater than before, every other candidate's score is unchanged, and the
\* candidate stands no later in the re-sorted list than in the incoming list (the
\* incoming list is in similarity order: by ascending distance).
C7_OnlyMatchRisesOthersKeep ==
    (Answered /\ response.query # "") =>
        LET terms == Desired(response.query)
            matched == MatchedBy(terms, cands)
        IN  (terms # {} /\ Cardinality(matched) = 1) =>
                \A i \in DOMAIN cands :
                    LET j == PosOf(cands[i].assessment_id, ranked)
                    IN  IF i \in matched
                        THEN ranked[j].score > cands[i].score /\ j <= i
                        ELSE ranked[j].score = cands[i].score

\* the only candidate holding "power bi" comes in last and is moved to the front
C7_Witness ==
    /\ Answered
    /\ response.query = "power bi"
    /\ MatchedBy(Desired(response.query), cands) = {Len(cands)}
    /\ Len(cands) = LargeRows
    /\ PosOf(cands[Len(cands)].assessment_id, ranked) = 1

-----------------------------------------------------------------------------
(* C8 *)

\* the 1-based rows of the table whose canonical text holds term as a substring
RowsHolding(term) == {i \in DOMAIN df : Contains(term, Lower(CellStr(df[i].canonical_text)))}

\* the query asks for "python" and "sql", one row holds both, every other row holds neither
OnePythonSqlRow ==
    /\ Answered
    /\ Desired(response.query) = {"python", "sql"}
    /\ Cardinality(RowsHolding("python")) = 1
    /\ RowsHolding("python") = RowsHolding("sql")

\* C8: for the query "python sql" over a catalogue in which one item holds both terms
\* and the others neither, the item is returned first whenever it is among the candidates
\* of the vector search and its similarity plus 0.5 exceeds every other candidate's
\* similarity, whatever its place in the distance order; in a catalogue of at most ten
\* items with as many indexed rows it is always among the candidates of a search that
\* reports a row in every place.
C8_PythonSqlItemFirst ==
    OnePythonSqlRow =>
        LET target == df[CHOOSE i \in RowsHolding("python") : TRUE].assessment_id
            at == {i \in DOMAIN cands : cands[i].assessment_id = target}
        IN  /\ (Len(df) <= MIN_NEIGHBORS /\ embs_len = Len(df) /\ ~request[2].padded) => at # {}
            /\ (/\ at # {}
                /\ \A i \in at, o \in DOMAIN cands \ at : cands[i].score + 2 * BOOST > cands[o].score)
                   => response.recommendations[1].assessment_id = target

\* a catalogue of ten items; the item holding both terms is the farthest of the ten
C8_Witness ==
    /\ OnePythonSqlRow
    /\ Len(df) = DEFAULT_TOP_K
    /\ response.query = "python sql"
    /\ Len(cands) = Len(df)
    /\ cands[Len(cands)].assessment_id = df[CHOOSE i \in RowsHolding("python") : TRUE].assessment_id
    /\ cands[1].score > cands[Len(cands)].score
    /\ response.recommendations[1].assessment_id = cands[Len(cands)].assessment_id

-----------------------------------------------------------------------------
(* C9 *)

\* the (dist, idx) pairs whose index is a row of the table, in the order returned
InRangePairs == SelectSeq(neighbors, LAMBDA pr : pr.idx >= 0 /\ pr.idx < Len(df))

\* the effective count of the claim: 10 for a missing, zero or negative top_k
ClaimedCount ==
    LET top_k == request[1].top_k
    IN  IF top_k.t = "absent" THEN DEFAULT_TOP_K
        ELSE IF top_k.v <= 0 THEN DEFAULT_TOP_K
        ELSE top_k.v

\* C9: with top_k missing, zero or negative the effective count is 10, otherwise it is
\* top_k; the recommendations are exactly min(effective count, number of in-range
\* candidates of the vector search) records.
C9_LengthIsMinOfCountAndCandidates ==
    (Answered /\ WellFormed) =>
        Len(response.recommendations) = Min(ClaimedCount, Len(InRangePairs))

\* top_k = 0 over a catalogue with more than ten indexed rows: ten records are returned
C9_Witness ==
    /\ Answered
    /\ WellFormed
    /\ request[1].top_k = Num(0)
    /\ Len(InRangePairs) >= DEFAULT_TOP_K
    /\ Len(response.recommendations) = DEFAULT_TOP_K

-----------------------------------------------------------------------------
(* C10 *)

\* the query of the request is missing, empty or all whitespace
EmptyQuery ==
    LET query == request[1].query
    IN  query.t = "absent" \/ (query.t = "str" /\ Strip(query.v) = "")

\* the records of the first n in-range pairs: the row's id with 1 - distance
BySimilarity(n) ==
    [i \in 1..n |-> [assessment_id |-> df[InRangePairs[i].idx + 1].assessment_id,
                     score |-> ONE - InRangePairs[i].dist]]

\* C10: a request whose query is missing, empty or all whitespace is answered (given a
\* usable top_k and working collaborators); its records are the in-range candidates in
\* the order of the vector search, cut to the effective count, each with score
\* 1 - distance.
C10_EmptyQueryIsPureSimilarity ==
    (WellFormed /\ EmptyQuery) =>
        /\ response.status = 200
        /\ response.recommendations = BySimilarity(Min(ClaimedCount, Len(InRangePairs)))

\* an all-whitespace query answered with three records that differ in score, the rows
\* taken in descending index order
C10_Witness ==
    /\ WellFormed
    /\ request[1].query = Str("  ")
    /\ request[2].descending
    /\ response.status = 200
    /\ Len(response.recommendations) = SmallRows
    /\ response.recommendations[1].score > response.recommendations[SmallRows].score

-----------------------------------------------------------------------------
(* C11 *)

\* what a caller can tell a response by: the HTTP status and the keys of the JSON object
\* (the value of "error" is str(e), the message text of whatever exception was raised)
Condition(resp) == [status |-> resp.status, keys |-> DOMAIN resp]

\* a top_k that line 100 turns into an integer
UsableTopK(top_k) ==
    \/ top_k.t \in {"absent", "int"}
    \/ top_k.t = "str" /\ IntOfStr(top_k.v) # <<>>

\* the request was well formed and the embedding call or the vector search failed
RetrievalFailed ==
    /\ pc = "done"
    /\ request[1] # Null
    /\ UsableTopK(request[1].top_k)
    /\ ~(request[2].encode_ok /\ request[2].search_ok)

\* requests that fail before the embedding call: no body, or a top_k that is no integer
MalformedBodies == {data \in Bodies : data = Null \/ ~UsableTopK(data.top_k)}

\* C11: when the embedding call or the vector search fails, the caller receives no
\* recommendations and a condition that differs from the condition received for a
\* malformed top_k or a missing request body.
C11_RetrievalUnavailableIsDistinct ==
    RetrievalFailed =>
        /\ response.status # 200
        /\ "recommendations" \notin DOMAIN response
        /\ \A data \in MalformedBodies :
               Condition(response) #
                   Condition(recommend(data, request[2], df, embs_len, nbrs_fit).response)

-----------------------------------------------------------------------------
(* C12 *)

\* the response a request gets when it is the only request of the server
Alone(data, env) == recommend(data, env, df, embs_len, nbrs_fit).response

\* C12: however the statements of concurrent /recommend calls interleave, no step
\* changes df, embs or nbrs, and a call that has finished has given exactly the response
\* the same request gets when it is executed alone.
C12_ConcurrentRequestsAreIsolated ==
    [][/\ df' = df
       /\ embs_len' = embs_len
       /\ nbrs_fit' = nbrs_fit
       /\ \A t \in Threads :
              threads'[t].pc = "done" => threads'[t].response = Alone(threads'[t].data, threads'[t].env)]_vars

\* a call has answered with boosted recommendations while another call, started before
\* the answer, holds a candidate list it has not boosted yet
C12_Witness ==
    /\ pc = "threads"
    /\ \E t, u \in Threads :
           /\ t # u
           /\ threads[t].pc = "done"
           /\ threads[t].response.status = 200
           /\ threads[t].q = "python sql"
           /\ threads[t].response.recommendations # <<>>
           /\ threads[u].pc = "boost"
           /\ threads[u].q = "python sql"
           /\ heap[OutList(u)] # <<>>
           /\ heap[OutList(u)] # heap[OutList(t)]

-----------------------------------------------------------------------------
(* C13 *)

\* C13: a query that has been answered used a catalogue table, an embedding matrix and
\* a search structure read from the files of one and the same build, so the three have
\* the same number of rows.
C13_QueryUsesOneBuild ==
    pc = "done" =>
        /\ loaded.meta = loaded.emb
        /\ loaded.emb = loaded.nn
        /\ Len(df) = embs_len
        /\ embs_len = nbrs_fit

-----------------------------------------------------------------------------
(* C14 *)

\* C14: after boost_by_text_match has been called with a query that is not empty, the
\* caller's candidate list is as it was before the call (same order, same fields, same
\* scores), so that a second call on the caller's list gives what the first call gave.
C14_BoostLeavesItsInputAsItWas ==
    (Answered /\ response.query # "") =>
        /\ ranked = cands
        /\ boost_by_text_match(ranked, response.query, BOOST) =
               boost_by_text_match(cands, response.query, BOOST)

-----------------------------------------------------------------------------
(* C15 *)

\* the pairs come by ascending distance
AscendingDistance(pairs) ==
    \A i, j \in DOMAIN pairs : i < j => pairs[i].dist <= pairs[j].dist

\* C15: with effective count k and R rows in the index (R is len(embs), which is the
\* number of catalogue rows when table and index are of one build), the number of
\* neighbours asked of the vector search is min(max(k, 10), R): never more than R, at
\* least 10 when R >= 10 even for k < 10; the pairs arrive by ascending distance and the
\* candidates are built from them in that order.
C15_NeighborsAskedIsClampedCount ==
    (Answered /\ WellFormed) =>
        LET k == ClaimedCount
            R == embs_len
            n == Len(neighbors)
            larger == IF k >= MIN_NEIGHBORS THEN k ELSE MIN_NEIGHBORS
        IN  /\ k >= 1
            /\ n = (IF larger <= R THEN larger ELSE R)
            /\ n <= R
            /\ R >= MIN_NEIGHBORS => n >= MIN_NEIGHBORS
            /\ Len(df) = embs_len => n <= Len(df)
            /\ AscendingDistance(neighbors)
            /\ Len(cands) = Len(InRangePairs)
            /\ \A i \in DOMAIN cands :
                   cands[i].assessment_id = df[InRangePairs[i].idx + 1].assessment_id

\* three results are asked for over a catalogue of at least ten rows: ten neighbours are
\* asked of the search, at growing distances, and three records are returned
C15_Witness ==
    /\ Answered
    /\ WellFormed
    /\ request[1].top_k = Num(3)
    /\ Len(df) >= MIN_NEIGHBORS
    /\ Len(neighbors) = MIN_NEIGHBORS
    /\ neighbors[1].dist < neighbors[Len(neighbors)].dist
    /\ Len(response.recommendations) = 3

-----------------------------------------------------------------------------
(* C16 *)

\* the pairs whose index is negative or not less than the number of catalogue rows
OutOfRangePairs == SelectSeq(neighbors, LAMBDA pr : pr.idx < 0 \/ pr.idx >= Len(df))

\* C16: whatever indices the vector search returns, the request is answered; the pairs
\* whose index is negative or not less than the number of catalogue rows give no
\* candidate, and the other pairs give one candidate each, built from the catalogue row
\* of the index and the distance of the pair, in the order of the pairs.
C16_OutOfRangePairsAreDropped ==
    WellFormed =>
        /\ response.status = 200
        /\ Len(cands) = Len(neighbors) - Len(OutOfRangePairs)
        /\ Len(cands) = Len(InRangePairs)
        /\ \A i \in DOMAIN cands :
               LET row == df[InRangePairs[i].idx + 1]
               IN  cands[i] = [assessment_id |-> row.assessment_id,
                               canonical_text |-> CellStr(row.canonical_text),
                               score |-> ONE - InRangePairs[i].dist]

\* the search returns an index beyond the table in its first place and -1 in its last;
\* the request is answered from the pairs in between
C16_Witness ==
    /\ WellFormed
    /\ response.status = 200
    /\ neighbors[1].idx >= Len(df)
    /\ neighbors[Len(neighbors)].idx < 0
    /\ Len(OutOfRangePairs) = 2
    /\ Len(cands) >= 2
    /\ cands[1].assessment_id = df[Len(df)].assessment_id

-----------------------------------------------------------------------------
(* C17 *)

\* the runs of word characters of s that no word character precedes or follows
WordRuns(s) ==
    {run \in (1..Len(s)) \X (1..Len(s)) :
        /\ run[1] <= run[2]
        /\ \A i \in run[1]..run[2] : IsWordChar(CharAt(s, i))
        /\ run[1] > 1 => ~IsWordChar(CharAt(s, run[1] - 1))
        /\ run[2] < Len(s) => ~IsWordChar(CharAt(s, run[2] + 1))}

\* the desired terms as the claim describes them: the known phrases that occur in the
\* lower-cased query, and its tokens of two characters or more
ClaimedTerms(query) ==
    LET lq == Lower(query)
    IN  {p \in SeqRange(multi_phrases) : Contains(p, lq)}
        \cup {SubSeq(lq, run[1], run[2]) : run \in {r \in WordRuns(lq) : r[2] - r[1] + 1 >= 2}}

\* the number of the terms that are substrings of the lower-cased canonical text
TermsIn(terms, canonical) == Cardinality({d \in terms : Contains(d, Lower(canonical))})

\* C17: for a query that is not empty, every candidate's score after
\* boost_by_text_match is its incoming similarity plus 0.25 for each desired term that is
\* a substring of its lower-cased canonical text, the desired terms being the known
\* phrases occurring in the lower-cased query and its tokens of length >= 2; the list
\* holds the same candidates, by composed score in non-increasing order.
C17_ComposedScoreAndOrder ==
    (Answered /\ response.query # "") =>
        LET terms == ClaimedTerms(response.query)
        IN  /\ Len(ranked) = Len(cands)
            /\ \A i \in DOMAIN cands :
                   /\ \E j \in DOMAIN ranked : ranked[j].assessment_id = cands[i].assessment_id
                   /\ ranked[PosOf(cands[i].assessment_id, ranked)].score =
                          cands[i].score + BOOST * TermsIn(terms, cands[i].canonical_text)
            /\ \A i, j \in DOMAIN ranked : i < j => ranked[i].score >= ranked[j].score

\* "power bi" asks for the phrase and its two tokens: a candidate that is not the nearest
\* holds all three, gains 0.75 and is sorted to the front
C17_Witness ==
    /\ Answered
    /\ ClaimedTerms(response.query) = {"power bi", "power", "bi"}
    /\ \E i \in DOMAIN cands :
           /\ i > 1
           /\ TermsIn(ClaimedTerms(response.query), cands[i].canonical_text) = 3
           /\ ranked[1].assessment_id = cands[i].assessment_id
           /\ ranked[1].score = cands[i].score + 3 * BOOST
    /\ ranked[Len(ranked)].score < ranked[1].score

-----------------------------------------------------------------------------
(* C18 *)

\* C18: when the text handed to extract_skills is exactly a label of CANONICAL_SKILLS,
\* the result contains that label.
C18_LabelFoundByItsOwnName ==
    (text # <<>> /\ skills # <<>> /\ text[1] \in CanonicalSet) =>
        text[1] \in SeqRange(Labels(skills[1]))

-----------------------------------------------------------------------------
=============================================================================
